---- MODULE Spec2Model ----
(***************************************************************************)
(* A model of eeoc-job-violations: the Craigslist scraper                  *)
(* (craigslist_eeoc.py: process_posting, write_posts_with_metadata, main)  *)
(* and the ZipRecruiter scraper (zr_eeoc_selenium.py: process_block,       *)
(* dedupe_jobs, write_csv, ContentBlockExtractor.get_all_blocks,           *)
(* process_search).                                                        *)
(*                                                                         *)
(* Text (URLs, HTML, CSV lines) is modelled by TLA+ strings, searched and  *)
(* sliced character by character.  An optional value (Python's None or a   *)
(* value, a file that may not exist) is a sequence of length 0 or 1.       *)
(***************************************************************************)
EXTENDS Naturals, Integers, Sequences, FiniteSets, TLC

VARIABLES
    term_order,         \* the iteration order of a set of strings in this process
    cache,              \* the files under the base directory: path -> <<>> or <<content>>
    rewritten,          \* history: the paths whose existing file a fetch has overwritten
    call,               \* the last call of an operation: arguments, effects and result
    pc,                 \* where main (Craigslist) or process_search (ZipRecruiter) is
    site,               \* main: index of the site being iterated
    num_processed,      \* main: postings processed for the current site
    dubious_posts,      \* main: flagged posts of the current site
    all_flagged_posts,  \* main: flagged posts accumulated over the sites
    csv,                \* the CSV output file: <<>> (not written) or <<lines>>
    pair,               \* process_search: index of the (location, term) pair
    page,               \* process_search: the content blocks the browser shows
    last_seen_jobs,     \* get_all_blocks: len(last_seen_jobs)
    all_jobs,           \* process_search: the JobPosts accumulated
    sleeps,             \* number of fixed sleeps taken between outer iterations
    fetch_failed        \* a fetch (HTTP GET, driver.get, listing request) has raised

vars == <<term_order, cache, rewritten, call, pc, site, num_processed,
          dubious_posts, all_flagged_posts, csv, pair, page, last_seen_jobs,
          all_jobs, sleeps, fetch_failed>>

(***************************************************************************)
(* Bounds of the model.                                                    *)
(***************************************************************************)
MaxLen == 3
MaxPosts == 3
MaxResults == 2
MaxBlocks == 2
MaxJobs == 3

(***************************************************************************)
(* Strings.                                                                *)
(***************************************************************************)
RECURSIVE StringsUpTo(_, _)
StringsUpTo(chars, n) ==
    IF n = 0 THEN {""}
    ELSE LET shorter == StringsUpTo(chars, n - 1)
         IN  shorter \cup {s \o c : s \in shorter, c \in chars}

\* the first offset k >= start (from 0) at which sub occurs in text, -1 when none
RECURSIVE FindFrom(_, _, _)
FindFrom(text, sub, start) ==
    IF start + Len(sub) > Len(text) THEN -1
    ELSE IF SubSeq(text, start + 1, start + Len(sub)) = sub THEN start
    ELSE FindFrom(text, sub, start + 1)

\* str.find(sub): the offset (from 0) of the first occurrence, -1 when there is none
Find(text, sub) == FindFrom(text, sub, 0)

UpperCase == "ABCDEFGHIJKLMNOPQRSTUVWXYZ"
LowerCase == "abcdefghijklmnopqrstuvwxyz"

LowerMap ==
    [c \in {SubSeq(UpperCase, i, i) : i \in 1..Len(UpperCase)} |->
        SubSeq(LowerCase, Find(UpperCase, c) + 1, Find(UpperCase, c) + 1)]

LowerChar(c) == IF c \in DOMAIN LowerMap THEN LowerMap[c] ELSE c

\* str.lower()
RECURSIVE Lower(_)
Lower(s) == IF s = "" THEN "" ELSE LowerChar(Head(s)) \o Lower(Tail(s))

\* the orders in which a set can be iterated
Orders(S) == {f \in [1..Cardinality(S) -> S] : \A i, j \in DOMAIN f : f[i] = f[j] => i = j}

Range(f) == {f[i] : i \in DOMAIN f}

(***************************************************************************)
(* craigslist_eeoc.py: the fetch cache, the extractor and the term flagger *)
(* of process_posting.                                                     *)
(***************************************************************************)
None == <<>>
Some(v) == <<v>>

\* hashlib.md5(s).hexdigest(): a digest of the text, free of collisions on the
\* few texts of the model
Md5(s) == "md5(" \o s \o ")"

CachedPath(local_base_path, hashed_url) == local_base_path \o "/" \o hashed_url

\* one character of the repr of a bytes object
ReprChar(c) ==
    CASE c = "\n" -> "\\n"
      [] c = "\\" -> "\\\\"
      [] OTHER -> c

RECURSIVE ReprBytes(_)
ReprBytes(b) == IF b = "" THEN "" ELSE ReprChar(Head(b)) \o ReprBytes(Tail(b))

\* str(content), content being a bytes object (resp.content in
\* write_cl_post_to_file, the encoded snippet in csv's writerow): its repr, b'...'.
\* The scripts are Python 3: text is encoded before it is hashed, dict keys are
\* wrapped in list().
Str(content) == "b'" \o ReprBytes(content) \o "'"

SectionOpen == "<section id=postingbody>"
SectionClose == "</section>"

\* BeautifulSoup(raw_content, 'html.parser').find('section', {'id': 'postingbody'}),
\* and its .text: None when the page has no such section; an unclosed section runs
\* to the end of the page
PostingBody(raw_content) ==
    LET i == Find(raw_content, SectionOpen)
        rest == SubSeq(raw_content, i + Len(SectionOpen) + 1, Len(raw_content))
        j == Find(rest, SectionClose)
    IN  IF i = -1 THEN None
        ELSE IF j = -1 THEN Some(rest)
        ELSE Some(SubSeq(rest, 1, j))

\* a matching loop that tests location > 0 and so misses a term at offset 0
FlaggedTermsAfterStart(body_text, order) ==
    SelectSeq(order, LAMBDA term : Find(body_text, term) > 0)

\* the matching loop: for term in dubious_terms, in the iteration order `order`
FlaggedTerms(body_text, order) ==
    SelectSeq(order, LAMBDA term : Find(body_text, term) # -1)

FlaggedIndices(body_text, order) ==
    LET flagged_terms == FlaggedTerms(body_text, order)
    IN  [i \in DOMAIN flagged_terms |-> Find(body_text, flagged_terms[i])]

FlaggedPost(url, job_name, job_body, post_time, flagged_terms, flagged_section_indices) ==
    [url |-> url, job_name |-> job_name, job_body |-> job_body, post_time |-> post_time,
     flagged_terms |-> flagged_terms, flagged_section_indices |-> flagged_section_indices]

\* what process_posting returns once it holds raw_content
PostingResult(post, raw_content, order) ==
    LET content == PostingBody(raw_content)
        body_text == Lower(content[1])
        flagged_terms == FlaggedTerms(body_text, order)
        flagged_indices == FlaggedIndices(body_text, order)
    IN  IF content = None THEN None
        ELSE IF Len(flagged_terms) > 0
             THEN Some(FlaggedPost(post.url, post.name, body_text, post.datetime,
                                   flagged_terms, flagged_indices))
        ELSE None

\* the cache branch is taken: the file exists and the cache is not ignored
\* a cache test that does not look at ignore_cache
CacheHitWheneverCached(cached_path, ignore_cache) == cache[cached_path] # None

CacheHit(cached_path, ignore_cache) == cache[cached_path] # None /\ ~ignore_cache

\* process_posting(post, dubious_terms, local_base_path, ignore_cache), where
\* `order` is the order the loop visits dubious_terms in and `resp` the outcome
\* of requests.get: None when it raises, else the body of the response
ProcessPosting(post, order, local_base_path, ignore_cache, resp) ==
    LET hashed_url == Md5(post.url)
        cached_path == CachedPath(local_base_path, hashed_url)
        hit == CacheHit(cached_path, ignore_cache)
        raises == ~hit /\ resp = None
        raw_content == IF hit THEN cache[cached_path][1] ELSE resp[1]
        content == PostingBody(raw_content)
        body_text == Lower(content[1])
    IN  /\ cache' = IF hit \/ raises THEN cache
                    ELSE [cache EXCEPT ![cached_path] = Some(Str(resp[1]))]
        /\ rewritten' = IF ~hit /\ ~raises /\ cache[cached_path] # None
                        THEN rewritten \cup {cached_path}
                        ELSE rewritten
        /\ fetch_failed' = (fetch_failed \/ raises)
        /\ call' = [op |-> "process_posting",
                    url |-> post.url,
                    ignore_cache |-> ignore_cache,
                    dubious_terms |-> Range(order),
                    http_get |-> ~hit,
                    raised |-> raises,
                    raw_content |-> IF raises THEN None ELSE Some(raw_content),
                    body_text |-> IF raises \/ content = None THEN None ELSE Some(body_text),
                    flagged_terms |-> IF raises \/ content = None THEN <<>>
                                      ELSE FlaggedTerms(body_text, order),
                    flagged_indices |-> IF raises \/ content = None THEN <<>>
                                        ELSE FlaggedIndices(body_text, order),
                    ret |-> IF raises THEN None
                            ELSE PostingResult(post, raw_content, order)]

(***************************************************************************)
(* The csv module: DictWriter writes, csv.reader reads back.               *)
(***************************************************************************)
RECURSIVE DoubleQuotes(_)
DoubleQuotes(s) ==
    IF s = "" THEN ""
    ELSE (IF Head(s) = "\"" THEN "\"\"" ELSE Head(s)) \o DoubleQuotes(Tail(s))

\* QUOTE_MINIMAL: a field holding the delimiter, the quote character or a line
\* break is quoted, its quote characters doubled
QuoteField(f) ==
    IF Find(f, ",") # -1 \/ Find(f, "\"") # -1 \/ Find(f, "\n") # -1 \/ Find(f, "\r") # -1
    THEN "\"" \o DoubleQuotes(f) \o "\""
    ELSE f

RECURSIVE QuoteFields(_)
QuoteFields(fields) ==
    IF Len(fields) = 0 THEN <<>>
    ELSE <<QuoteField(Head(fields))>> \o QuoteFields(Tail(fields))

RECURSIVE JoinWith(_, _)
JoinWith(fields, sep) ==
    IF Len(fields) = 0 THEN ""
    ELSE IF Len(fields) = 1 THEN fields[1]
    ELSE fields[1] \o sep \o JoinWith(Tail(fields), sep)

\* writer.writerow: the fields, quoted where needed, joined by commas, then \r\n
CsvRow(fields) == JoinWith(QuoteFields(fields), ",") \o "\r\n"

\* DictWriter.writerow(d): the values of d in the order of the column names
DictRow(column_names, d) == CsvRow([i \in DOMAIN column_names |-> d[column_names[i]]])

CharAt(text, i) == SubSeq(text, i, i)

\* csv.reader, an unquoted field: the position (from 1) of the delimiter or line
\* break that ends the field starting at i, Len(text) + 1 when the text ends first
RECURSIVE FieldEnd(_, _)
FieldEnd(text, i) ==
    IF i > Len(text) \/ CharAt(text, i) \in {",", "\r", "\n"} THEN i
    ELSE FieldEnd(text, i + 1)

\* csv.reader, inside a quoted field from position i, acc read so far: a doubled
\* quote is one quote character, a single one ends the quoting, and what follows
\* it up to the delimiter still belongs to the field
RECURSIVE ReadQuoted(_, _, _)
ReadQuoted(text, i, acc) ==
    LET q == Find(SubSeq(text, i, Len(text)), "\"")
        at == i + q
    IN  IF q = -1
        THEN [value |-> acc \o SubSeq(text, i, Len(text)), next |-> Len(text) + 1]
        ELSE IF at < Len(text) /\ CharAt(text, at + 1) = "\""
        THEN ReadQuoted(text, at + 2, acc \o SubSeq(text, i, at - 1) \o "\"")
        ELSE [value |-> acc \o SubSeq(text, i, at - 1)
                            \o SubSeq(text, at + 1, FieldEnd(text, at + 1) - 1),
              next |-> FieldEnd(text, at + 1)]

\* csv.reader: the field that starts at position i, and the position after it
ReadField(text, i) ==
    IF i <= Len(text) /\ CharAt(text, i) = "\""
    THEN ReadQuoted(text, i + 1, "")
    ELSE [value |-> SubSeq(text, i, FieldEnd(text, i) - 1), next |-> FieldEnd(text, i)]

\* csv.reader: the rest of a row, from the field that starts at position i
RECURSIVE ReadFields(_, _, _)
ReadFields(text, i, row) ==
    LET f == ReadField(text, i)
    IN  IF f.next <= Len(text) /\ CharAt(text, f.next) = ","
        THEN ReadFields(text, f.next + 1, Append(row, f.value))
        ELSE [row |-> Append(row, f.value), next |-> f.next]

\* csv.reader: the rows from position i on; line breaks between rows are skipped
RECURSIVE ReadRows(_, _)
ReadRows(text, i) ==
    IF i > Len(text) THEN <<>>
    ELSE IF CharAt(text, i) \in {"\r", "\n"} THEN ReadRows(text, i + 1)
    ELSE LET r == ReadFields(text, i, <<>>)
         IN  <<r.row>> \o ReadRows(text, r.next)

\* list(csv.reader(open(csv_path))): the rows of the file, each a list of fields
ReadCsv(text) == ReadRows(text, 1)

\* the position of a column in the header row, 0 when the header has no such column
ColumnOf(header, name) ==
    IF \E i \in DOMAIN header : header[i] = name
    THEN CHOOSE i \in DOMAIN header : header[i] = name
    ELSE 0

(***************************************************************************)
(* craigslist_eeoc.py: write_posts_with_metadata.                          *)
(***************************************************************************)
\* FlaggedPost.to_dict_for_csv
ToDictForCsv(post) ==
    [url |-> post.url, job_name |-> post.job_name, job_body |-> post.job_body,
     post_time |-> post.post_time, flagged_terms |-> JoinWith(post.flagged_terms, ",")]

\* the keys of to_dict_for_csv() in insertion order, and time_accessed
ClColumnNames == <<"url", "job_name", "job_body", "post_time", "flagged_terms", "time_accessed">>

\* the loop over post_objs: the rows written for posts[i..], given the URLs written
\* a writer loop without the post_urls_written check
RECURSIVE ClRowsNoSkip(_, _, _, _)
ClRowsNoSkip(post_objs, i, post_urls_written, datetime_accessed) ==
    IF i > Len(post_objs) THEN ""
    ELSE DictRow(ClColumnNames,
                 [c \in Range(ClColumnNames) |->
                     IF c = "time_accessed" THEN datetime_accessed
                     ELSE ToDictForCsv(post_objs[i])[c]])
         \o ClRowsNoSkip(post_objs, i + 1, post_urls_written, datetime_accessed)

RECURSIVE ClRowsFrom(_, _, _, _)
ClRowsFrom(post_objs, i, post_urls_written, datetime_accessed) ==
    IF i > Len(post_objs) THEN ""
    ELSE LET post == post_objs[i]
             to_write == [c \in Range(ClColumnNames) |->
                            IF c = "time_accessed" THEN datetime_accessed
                            ELSE ToDictForCsv(post)[c]]
         IN  IF post.url \notin post_urls_written
             THEN DictRow(ClColumnNames, to_write)
                  \o ClRowsFrom(post_objs, i + 1, post_urls_written \cup {post.url},
                                datetime_accessed)
             ELSE ClRowsFrom(post_objs, i + 1, post_urls_written, datetime_accessed)

\* post_objs[0] raises IndexError on an empty list, before the file is opened
WritePostsRaises(post_objs) == Len(post_objs) = 0

\* the text write_posts_with_metadata leaves in the file at csv_path
WritePostsWithMetadata(post_objs, datetime_accessed) ==
    CsvRow(ClColumnNames) \o ClRowsFrom(post_objs, 1, {}, datetime_accessed)

(***************************************************************************)
(* zr_eeoc_selenium.py: JobPost, write_csv, process_block, dedupe_jobs.    *)
(***************************************************************************)
URL_TEMPLATE(search_term, location_term) ==
    "https://www.ziprecruiter.com/candidate/search?search=" \o search_term
        \o "&location=" \o location_term

JOB_POST_FIELD_NAMES ==
    <<"job_title", "job_organization_name", "job_snippet_text", "source_url",
      "job_search_term", "location_search_term", "full_url">>

JOB_POST_FIELD_NAMES_WITH_ID == <<"job_id">> \o JOB_POST_FIELD_NAMES

\* JobPost.generate_job_id
GenerateJobId(job) ==
    LET job_key == job.job_title \o "_" \o job.job_organization_name \o "_"
                   \o job.location_search_term
    IN  Md5(job_key)

\* JobPost.to_dict_with_id
ToDictWithId(job) ==
    [c \in Range(JOB_POST_FIELD_NAMES_WITH_ID) |->
        IF c = "job_id" THEN GenerateJobId(job) ELSE job[c]]

\* what the csv writer makes of a value: str(value); job_snippet_text is the bytes
\* object process_block encoded, the other values are text already
CsvStr(column, value) == IF column = "job_snippet_text" THEN Str(value) ELSE value

\* the row DictWriter.writerow writes for job.to_dict_with_id()
ZrRow(job, column_names) ==
    CsvRow([i \in DOMAIN column_names |->
               CsvStr(column_names[i], ToDictWithId(job)[column_names[i]])])

RECURSIVE ZrRowsFrom(_, _, _)
ZrRowsFrom(dataset, i, column_names) ==
    IF i > Len(dataset) THEN ""
    ELSE ZrRow(dataset[i], column_names) \o ZrRowsFrom(dataset, i + 1, column_names)

\* the text write_csv leaves in the file at csv_path
WriteCsv(dataset, column_names) ==
    CsvRow(column_names) \o ZrRowsFrom(dataset, 1, column_names)

\* bytes.lstrip().rstrip(): leading and trailing whitespace removed
Whitespace == {" ", "\n", "\t", "\r"}

RECURSIVE LStrip(_)
LStrip(s) == IF s # "" /\ Head(s) \in Whitespace THEN LStrip(Tail(s)) ELSE s

RECURSIVE RStrip(_)
RStrip(s) ==
    IF s # "" /\ SubSeq(s, Len(s), Len(s)) \in Whitespace
    THEN RStrip(SubSeq(s, 1, Len(s) - 1))
    ELSE s

\* the characters of the model outside ASCII
NonAscii == {"é"}

\* text.encode('ascii', 'ignore'): the characters outside ASCII are dropped
RECURSIVE EncodeAsciiIgnore(_)
EncodeAsciiIgnore(s) ==
    IF s = "" THEN ""
    ELSE (IF Head(s) \in NonAscii THEN "" ELSE Head(s)) \o EncodeAsciiIgnore(Tail(s))

\* process_block raises AttributeError: block.find(...) returned None for the title
\* span, the organization link, the snippet paragraph or the job link
ProcessBlockRaises(block) ==
    \/ block.just_job_title = None
    \/ block.t_org_link = None
    \/ block.job_snippet = None
    \/ block.job_link = None

\* the JobPost process_block returns
ProcessBlock(block, source_url, job_search_term, location_search_term) ==
    [job_title |-> block.just_job_title[1],
     job_organization_name |-> block.t_org_link[1],
     job_snippet_text |-> RStrip(LStrip(EncodeAsciiIgnore(block.job_snippet[1]))),
     source_url |-> source_url,
     job_search_term |-> job_search_term,
     location_search_term |-> location_search_term,
     full_url |-> block.job_link[1]]

\* the loop of dedupe_jobs over list_of_jobs[i..]: ids are the keys of id_to_job,
\* kept the jobs it holds, in insertion order
\* a dedupe_jobs that keeps every job
DedupeKeepAll(list_of_jobs, i, ids, kept) == list_of_jobs

RECURSIVE DedupeFrom(_, _, _, _)
DedupeFrom(list_of_jobs, i, ids, kept) ==
    IF i > Len(list_of_jobs) THEN kept
    ELSE LET job == list_of_jobs[i]
             job_id == GenerateJobId(job)
         IN  IF job_id \notin ids
             THEN DedupeFrom(list_of_jobs, i + 1, ids \cup {job_id}, Append(kept, job))
             ELSE DedupeFrom(list_of_jobs, i + 1, ids, kept)

\* dedupe_jobs: id_to_job.values(), a dict keeping insertion order
DedupeJobs(list_of_jobs) == DedupeFrom(list_of_jobs, 1, {}, <<>>)

(***************************************************************************)
(* The inputs of the Craigslist model.                                     *)
(***************************************************************************)
Urls == {"u1", "u2"}
BaseDir == "cl_posts"
Paths == {CachedPath(BaseDir, Md5(u)) : u \in Urls}

\* a result of CraigslistJobs.get_results: name, url and datetime of a listing
Post(u) == [name |-> "job " \o u, url |-> u, datetime |-> "07-06 10:00"]

Page(text) == SectionOpen \o text \o SectionClose

Texts == StringsUpTo({"a", "b", "A"}, MaxLen)
Terms == {"a", "ab", "ba"}

\* the dubious terms main passes (three of the configured fourteen)
SEARCH_TERMS == {"felony", "felonies", "pass a background check"}

\* response bodies the network may serve
FetchPages == {Page("must pass a background check and have no felonies"),
               Page("No Felony;\napply now"),
               Page("friendly team"),
               "<html>404 not found</html>"}

Responses(pages) == {None} \cup {Some(p) : p \in pages}

InitCommon ==
    /\ cache = [p \in Paths |-> None]
    /\ rewritten = {}
    /\ call = [op |-> "none"]
    /\ pc = "NotStarted"
    /\ site = 1
    /\ num_processed = 0
    /\ dubious_posts = <<>>
    /\ all_flagged_posts = <<>>
    /\ csv = None
    /\ pair = 1
    /\ page = <<>>
    /\ last_seen_jobs = 0
    /\ all_jobs = <<>>
    /\ sleeps = 0
    /\ fetch_failed = FALSE

runVars == <<pc, site, num_processed, dubious_posts, all_flagged_posts, csv, pair, page,
             last_seen_jobs, all_jobs, sleeps>>

(***************************************************************************)
(* SpecCacheOn: calls of process_posting with the cache enabled            *)
(* (ignore_cache=False, the default of the parameter).                     *)
(***************************************************************************)
FetchResponses == Responses(FetchPages)

CachedCall ==
    /\ \E u \in Urls, resp \in FetchResponses :
          ProcessPosting(Post(u), term_order, BaseDir, FALSE, resp)
    /\ UNCHANGED <<term_order, runVars>>

InitCacheOn == InitCommon /\ term_order \in Orders(SEARCH_TERMS)

SpecCacheOn == InitCacheOn /\ [][CachedCall]_vars

(***************************************************************************)
(* SpecFlag: calls of process_posting on every short body text and every   *)
(* set of terms, in every iteration order, with the ignore_cache value     *)
(* main configures.                                                        *)
(***************************************************************************)
\* main: ignore_cache = True
ignore_cache == TRUE

FlagPages == {Page(t) : t \in Texts} \cup {"ab"}

FlagResponses == Responses(FlagPages)

\* every iteration order of every set of terms
FlagOrders == UNION {Orders(dubious_terms) : dubious_terms \in SUBSET Terms}

\* one call in a fresh process
FlagCall ==
    /\ call.op = "none"
    /\ \E order \in FlagOrders, resp \in FlagResponses :
          ProcessPosting(Post("u1"), order, BaseDir, ignore_cache, resp)
    /\ UNCHANGED <<term_order, runVars>>

\* the order of SEARCH_TERMS plays no part here: each call brings its own terms
InitFlag == InitCommon /\ term_order = <<>>

SpecFlag == InitFlag /\ [][FlagCall]_vars

\* C1: with the cache enabled, the call for a URL that follows the call which
\* fetched it issues no HTTP GET and parses raw content identical to the body that
\* first call obtained from the network.
C1_FetchCache ==
    [][(/\ call.op = "process_posting" /\ call.http_get /\ ~call.raised
        /\ call'.op = "process_posting" /\ call'.url = call.url
        /\ ~call'.ignore_cache)
       => (~call'.http_get /\ call'.raw_content = call.raw_content)]_vars

\* the half of C1 the code keeps: once a call has fetched a URL, a later call for it
\* with the cache enabled issues no HTTP GET
C1_NoSecondGet ==
    [][(call'.op = "process_posting" /\ ~call'.ignore_cache
        /\ cache[CachedPath(BaseDir, Md5(call'.url))] # None)
       => ~call'.http_get]_vars

\* text contains term at offset k (from 0)
OccursAt(text, term, k) ==
    /\ k \in 0..(Len(text) - Len(term))
    /\ SubSeq(text, k + 1, k + Len(term)) = term

FirstAt(text, term, k) ==
    /\ OccursAt(text, term, k)
    /\ \A j \in 0..(k - 1) : ~OccursAt(text, term, j)

Contains(text, term) == \E k \in 0..Len(text) : OccursAt(text, term, k)

\* C4: when the lower-cased body text contains exactly one of the dubious terms, T,
\* first at offset k, the flagger returns the one match (T, k); when it contains
\* none, the match list is empty and process_posting returns None.
C4_TermFlagger ==
    (call.op = "process_posting" /\ call.body_text # None)
    => LET text == call.body_text[1]
           present == {t \in call.dubious_terms : Contains(text, t)}
       IN  /\ \A T \in call.dubious_terms : \A k \in 0..Len(text) :
                 (present = {T} /\ FirstAt(text, T, k))
                 => /\ call.flagged_terms = <<T>>
                    /\ call.flagged_indices = <<k>>
                    /\ call.ret # None
                    /\ call.ret[1].flagged_terms = <<T>>
                    /\ call.ret[1].flagged_section_indices = <<k>>
           /\ present = {}
                 => /\ call.flagged_terms = <<>>
                    /\ call.flagged_indices = <<>>
                    /\ call.ret = None

C4_Witness ==
    /\ call.op = "process_posting"
    /\ call.body_text = Some("aab")
    /\ call.raw_content = Some(Page("Aab"))
    /\ call.dubious_terms = {"ab", "ba"}
    /\ call.flagged_terms = <<"ab">>
    /\ call.flagged_indices = <<1>>
    /\ call.ret # None

(***************************************************************************)
(* SpecMain: a run of main (craigslist_eeoc.py).                           *)
(***************************************************************************)
\* the sites main iterates (two of the thirteen of IL_CL_SITES)
Sites == <<"bn", "chambana">>

\* what the network serves for a posting during a run
MainResponses == Responses({Page("No Felonies"), Page("friendly team")})

\* str(datetime.datetime.now()) at the start of write_posts_with_metadata
Now == "07-06 11:00"

InitMain == InitCommon /\ term_order \in Orders(SEARCH_TERMS)

\* main up to the loop over the sites: the configuration and the output file name
MainStart ==
    /\ pc = "NotStarted"
    /\ pc' = "IteratingSites"
    /\ UNCHANGED <<term_order, cache, rewritten, call, site, num_processed, dubious_posts,
                   all_flagged_posts, csv, pair, page, last_seen_jobs, all_jobs, sleeps,
                   fetch_failed>>

\* a loop turn that swallows the error of requests.get and goes on to the next job
MainProcessJobSwallows ==
    /\ pc = "IteratingSites"
    /\ site <= Len(Sites)
    /\ num_processed < MaxResults
    /\ \E u \in Urls, resp \in MainResponses :
          ProcessPosting(Post(u), term_order, BaseDir, ignore_cache, resp)
    /\ pc' = pc
    /\ dubious_posts' = IF ~call'.raised /\ call'.ret # None
                        THEN Append(dubious_posts, call'.ret[1])
                        ELSE dubious_posts
    /\ num_processed' = num_processed + 1
    /\ UNCHANGED <<term_order, site, all_flagged_posts, csv, pair, page, last_seen_jobs,
                   all_jobs, sleeps>>

\* one turn of the loop over cl_jobs.get_results(limit=max_posts): the listing yields
\* a job, process_posting handles it; an error of requests.get leaves main
MainProcessJob ==
    /\ pc = "IteratingSites"
    /\ site <= Len(Sites)
    /\ num_processed < MaxResults
    /\ \E u \in Urls, resp \in MainResponses :
          ProcessPosting(Post(u), term_order, BaseDir, ignore_cache, resp)
    /\ IF call'.raised
       THEN /\ pc' = "Aborted"
            /\ UNCHANGED <<dubious_posts, num_processed>>
       ELSE /\ pc' = pc
            /\ dubious_posts' = IF call'.ret # None
                                THEN Append(dubious_posts, call'.ret[1])
                                ELSE dubious_posts
            /\ num_processed' = num_processed + 1
    /\ UNCHANGED <<term_order, site, all_flagged_posts, csv, pair, page, last_seen_jobs,
                   all_jobs, sleeps>>

\* a request of the listing itself (CraigslistJobs, get_results) raises
MainListingFails ==
    /\ pc = "IteratingSites"
    /\ site <= Len(Sites)
    /\ pc' = "Aborted"
    /\ fetch_failed' = TRUE
    /\ UNCHANGED <<term_order, cache, rewritten, call, site, num_processed, dubious_posts,
                   all_flagged_posts, csv, pair, page, last_seen_jobs, all_jobs, sleeps>>

\* the listing of the site is exhausted: extend all_flagged_posts, sleep, next site
MainSiteDone ==
    /\ pc = "IteratingSites"
    /\ site <= Len(Sites)
    /\ all_flagged_posts' = all_flagged_posts \o dubious_posts
    /\ dubious_posts' = <<>>
    /\ num_processed' = 0
    /\ sleeps' = sleeps + 1
    /\ site' = site + 1
    /\ UNCHANGED <<term_order, cache, rewritten, call, pc, csv, pair, page, last_seen_jobs, all_jobs,
                   fetch_failed>>

\* after the last site: write_posts_with_metadata(outfile_name, all_flagged_posts)
MainWrite ==
    /\ pc = "IteratingSites"
    /\ site > Len(Sites)
    /\ IF WritePostsRaises(all_flagged_posts)
       THEN pc' = "Crashed" /\ csv' = csv
       ELSE pc' = "Complete" /\ csv' = Some(WritePostsWithMetadata(all_flagged_posts, Now))
    /\ UNCHANGED <<term_order, cache, rewritten, call, site, num_processed, dubious_posts,
                   all_flagged_posts, pair, page, last_seen_jobs, all_jobs, sleeps,
                   fetch_failed>>

NextMain ==
    \/ MainStart
    \/ MainProcessJob
    \/ MainListingFails
    \/ MainSiteDone
    \/ MainWrite

SpecMain == InitMain /\ [][NextMain]_vars

\* C7 as stated: in a run of main, once a cache file exists its content never
\* changes.
C7_WriteOnce ==
    [][\A p \in Paths : cache[p] # None => cache'[p] = cache[p]]_vars

\* C7 amended: in a run of main a cache file is never deleted, and the only change
\* to the directory is that a successful fetch of a URL writes str() of the response
\* body to the file of that URL, creating it or, main passing ignore_cache=True,
\* overwriting it.
C7_NeverDeletedButOverwritten ==
    [][\A p \in Paths :
          /\ cache[p] # None => cache'[p] # None
          /\ cache'[p] # cache[p]
             => /\ call'.op = "process_posting"
                /\ p = CachedPath(BaseDir, Md5(call'.url))
                /\ call'.http_get /\ ~call'.raised
                /\ cache'[p] = Some(Str(call'.raw_content[1]))
          /\ (cache[p] # None /\ call'.op = "process_posting" /\ call' # call
              /\ p = CachedPath(BaseDir, Md5(call'.url)) /\ ~call'.raised)
             => (call'.http_get /\ p \in rewritten')]_vars

C7_Witness ==
    /\ pc = "IteratingSites"
    /\ call.op = "process_posting"
    /\ CachedPath(BaseDir, Md5(call.url)) \in rewritten
    /\ cache[CachedPath(BaseDir, Md5(call.url))] = Some(Str(Page("friendly team")))

\* C8: a failed HTTP GET ends the run: the failing step writes no cache file and
\* leaves main, no step follows it (no retry, no later posting or site), and no CSV
\* file is written, before or after.
C8_FailureAborts ==
    [][/\ ~fetch_failed
       /\ fetch_failed'
          => /\ pc' = "Aborted"
             /\ cache' = cache
             /\ csv' = None
             /\ all_flagged_posts' = all_flagged_posts]_vars

C8_Witness ==
    /\ pc = "Aborted"
    /\ fetch_failed
    /\ call.op = "process_posting" /\ call.raised /\ call.http_get
    /\ site = 2
    /\ all_flagged_posts # <<>>
    /\ cache[CachedPath(BaseDir, Md5(call.url))] # None
    /\ csv = None

(***************************************************************************)
(* SpecOps: one call, in a fresh process, of dedupe_jobs, write_csv,       *)
(* write_posts_with_metadata, process_block or process_posting.            *)
(***************************************************************************)
Block(title, org, snippet, link) ==
    [just_job_title |-> title, t_org_link |-> org, job_snippet |-> snippet, job_link |-> link]

\* div.job_content blocks holding all four elements
GoodBlocks ==
    {Block(Some(title), Some(org), Some(" no felonies, café \n"), Some("/job/1")) :
        title \in {"Cashier", "Cashier_Acme"}, org \in {"Acme_Inc", "Inc"}}
    \cup {Block(Some("Cashier"), Some("Acme_Inc"), Some("must have a clean record"),
                Some("/job/2"))}

\* blocks in which one of the four elements is absent
BadBlocks ==
    {Block(None, Some("Inc"), Some("x"), Some("/job/1")),
     Block(Some("Cashier"), None, Some("x"), Some("/job/1")),
     Block(Some("Cashier"), Some("Inc"), None, Some("/job/1")),
     Block(Some("Cashier"), Some("Inc"), Some("x"), None)}

Blocks == GoodBlocks \cup BadBlocks

LOCATIONS_TO_SEARCH == <<"illinois">>

\* the search terms process_search iterates (two of the configured fourteen)
SEARCH_KEYWORDS == {"felony", "\"clean record\""}

JobPosts ==
    {ProcessBlock(b, URL_TEMPLATE("felony", "illinois"), "felony", "illinois") :
        b \in GoodBlocks}

RECURSIVE SeqsUpTo(_, _)
SeqsUpTo(S, n) ==
    IF n = 0 THEN {<<>>}
    ELSE LET shorter == SeqsUpTo(S, n - 1)
         IN  shorter \cup {Append(q, x) : q \in shorter, x \in S}

JobLists == SeqsUpTo(JobPosts, MaxJobs)

\* flagged posts as process_posting returns them
FlaggedPosts ==
    {FlaggedPost(u, Post(u).name, body, Post(u).datetime, terms,
                 [i \in DOMAIN terms |-> Find(body, terms[i])]) :
        u \in Urls, body \in {"no felony, no \"jail\"\ntime"},
        terms \in {<<"felony", "jail">>, <<"jail">>}}

PostLists == SeqsUpTo(FlaggedPosts, MaxPosts)

DedupeCall ==
    /\ call.op = "none"
    /\ \E list_of_jobs \in JobLists :
          call' = [op |-> "dedupe_jobs", list_of_jobs |-> list_of_jobs,
                   ret |-> DedupeJobs(list_of_jobs)]
    /\ UNCHANGED <<term_order, cache, rewritten, runVars, fetch_failed>>

WriteCsvCall ==
    /\ call.op = "none"
    /\ \E dataset \in JobLists :
          /\ call' = [op |-> "write_csv", dataset |-> dataset]
          /\ csv' = Some(WriteCsv(dataset, JOB_POST_FIELD_NAMES_WITH_ID))
    /\ UNCHANGED <<term_order, cache, rewritten, pc, site, num_processed, dubious_posts,
                   all_flagged_posts, pair, page, last_seen_jobs, all_jobs, sleeps,
                   fetch_failed>>

WritePostsCall ==
    /\ call.op = "none"
    /\ \E post_objs \in PostLists :
          /\ call' = [op |-> "write_posts_with_metadata", post_objs |-> post_objs,
                      raised |-> WritePostsRaises(post_objs)]
          /\ csv' = IF WritePostsRaises(post_objs) THEN csv
                    ELSE Some(WritePostsWithMetadata(post_objs, Now))
    /\ UNCHANGED <<term_order, cache, rewritten, pc, site, num_processed, dubious_posts,
                   all_flagged_posts, pair, page, last_seen_jobs, all_jobs, sleeps,
                   fetch_failed>>

ProcessBlockCall ==
    /\ call.op = "none"
    /\ \E block \in Blocks, search_term \in SEARCH_KEYWORDS :
          call' = [op |-> "process_block", block |-> block,
                   raised |-> ProcessBlockRaises(block),
                   ret |-> IF ProcessBlockRaises(block) THEN None
                           ELSE Some(ProcessBlock(block,
                                        URL_TEMPLATE(search_term, LOCATIONS_TO_SEARCH[1]),
                                        search_term, LOCATIONS_TO_SEARCH[1]))]
    /\ UNCHANGED <<term_order, cache, rewritten, runVars, fetch_failed>>

SearchTermOrders == Orders(SEARCH_TERMS)

ProcessPostingCall ==
    /\ call.op = "none"
    /\ \E u \in Urls, resp \in FetchResponses, order \in SearchTermOrders :
          ProcessPosting(Post(u), order, BaseDir, ignore_cache, resp)
    /\ UNCHANGED <<term_order, runVars>>

NextOps ==
    \/ DedupeCall
    \/ WriteCsvCall
    \/ WritePostsCall
    \/ ProcessBlockCall
    \/ ProcessPostingCall

SpecOps == InitFlag /\ [][NextOps]_vars

Distinct(q) == \A i, j \in DOMAIN q : q[i] = q[j] => i = j

\* the rows after the header, read back from the text of a CSV file
DataRows(text) == Tail(ReadCsv(text))

\* the values of a column in the data rows read back
ColumnValues(text, name) ==
    LET rows == ReadCsv(text)
        c == ColumnOf(rows[1], name)
    IN  [i \in 1..(Len(rows) - 1) |-> rows[i + 1][c]]

\* C2: the output of dedupe_jobs holds no two postings with the same identity hash
\* and is no longer than the input.
C2_DedupeNoDuplicates ==
    call.op = "dedupe_jobs"
    => /\ Len(call.ret) <= Len(call.list_of_jobs)
       /\ Distinct([i \in DOMAIN call.ret |-> GenerateJobId(call.ret[i])])

C2_Witness ==
    /\ call.op = "dedupe_jobs"
    /\ Len(call.list_of_jobs) = 3
    /\ Len(call.ret) = 2
    /\ call.list_of_jobs[1].job_title = call.list_of_jobs[3].job_title
    /\ call.list_of_jobs[1].job_organization_name = call.list_of_jobs[3].job_organization_name
    /\ call.list_of_jobs[1].full_url # call.list_of_jobs[3].full_url

\* the identity of a posting: title, organization, location searched for
Identity(job) == <<job.job_title, job.job_organization_name, job.location_search_term>>

\* the postings that are the first of the list with their identity, in list order
FirstOfIdentity(list) ==
    LET first == {i \in DOMAIN list :
                     \A j \in 1..(i - 1) : Identity(list[j]) # Identity(list[i])}
        nth[k \in 0..Len(list)] ==
            IF k = 0 THEN 0 ELSE CHOOSE i \in first : i > nth[k - 1] /\
                                     \A m \in first : m > nth[k - 1] => i <= m
    IN  [k \in 1..Cardinality(first) |-> list[nth[k]]]

\* C3: dedupe_jobs keeps, for each (title, organization, location) identity, the
\* first posting of the input with it, in first-seen order; so an input of distinct
\* identities comes back unchanged.
C3_FirstSeenPerIdentity ==
    call.op = "dedupe_jobs" => call.ret = FirstOfIdentity(call.list_of_jobs)

\* C5 as stated: whatever sequence either writer is handed, the CSV holds at most
\* one row per dedup key (url for Craigslist, job_id for ZipRecruiter).
C5_OneRowPerKey ==
    /\ (call.op = "write_posts_with_metadata" /\ ~call.raised)
       => Distinct(ColumnValues(csv[1], "url"))
    /\ call.op = "write_csv"
       => Distinct(ColumnValues(csv[1], "job_id"))

\* C5 amended: write_posts_with_metadata skips a post whose URL it has written, so
\* its CSV holds exactly one row per URL of the input; write_csv writes one row for
\* every record it is handed, so its CSV holds one row per job_id only when no
\* job_id repeats in the sequence handed to it.
C5_OnlyCraigslistWriterSkips ==
    /\ (call.op = "write_posts_with_metadata" /\ ~call.raised)
       => LET urls == ColumnValues(csv[1], "url")
          IN  /\ Distinct(urls)
              /\ Range(urls) = {call.post_objs[i].url : i \in DOMAIN call.post_objs}
    /\ call.op = "write_csv"
       => ColumnValues(csv[1], "job_id")
             = [i \in DOMAIN call.dataset |-> GenerateJobId(call.dataset[i])]

C5_Witness ==
    /\ call.op = "write_posts_with_metadata"
    /\ Len(call.post_objs) = 3
    /\ call.post_objs[1].url = call.post_objs[3].url
    /\ call.post_objs[1].url # call.post_objs[2].url
    /\ Len(DataRows(csv[1])) = 2

\* C6: for N >= 0 postings with pairwise distinct keys, either writer leaves a file
\* that reads back as one header row and N data rows whose URL and identity columns
\* hold the values of the postings, in the order written.
C6_RoundTrip ==
    /\ (call.op = "write_posts_with_metadata"
        /\ Distinct([i \in DOMAIN call.post_objs |-> call.post_objs[i].url]))
       => /\ csv # None
          /\ ReadCsv(csv[1])[1] = ClColumnNames
          /\ ColumnValues(csv[1], "url")
                = [i \in DOMAIN call.post_objs |-> call.post_objs[i].url]
    /\ (call.op = "write_csv"
        /\ Distinct([i \in DOMAIN call.dataset |-> GenerateJobId(call.dataset[i])]))
       => /\ csv # None
          /\ ReadCsv(csv[1])[1] = JOB_POST_FIELD_NAMES_WITH_ID
          /\ ColumnValues(csv[1], "job_id")
                = [i \in DOMAIN call.dataset |-> GenerateJobId(call.dataset[i])]
          /\ ColumnValues(csv[1], "full_url")
                = [i \in DOMAIN call.dataset |-> call.dataset[i].full_url]

\* the part of C6 the code keeps: the round trip of one posting or more
C6_RoundTripNonEmpty ==
    (call.op = "write_posts_with_metadata" /\ Len(call.post_objs) = 0) \/ C6_RoundTrip

\* C9: an extractor handed HTML in which an expected element is absent returns
\* "no posting" and does not raise.
C9_SoftFail ==
    /\ (call.op = "process_posting" /\ ~call.raised
        /\ PostingBody(call.raw_content[1]) = None)
       => call.ret = None
    /\ (call.op = "process_block"
        /\ \E e \in DOMAIN call.block : call.block[e] = None)
       => (~call.raised /\ call.ret = None)

\* the half of C9 the code keeps: process_posting returns None for a page without
\* the postingbody section
C9_CraigslistSoftFail ==
    (call.op = "process_posting" /\ ~call.raised
     /\ PostingBody(call.raw_content[1]) = None)
    => call.ret = None

(***************************************************************************)
(* SpecSearch: a run of process_search (zr_eeoc_selenium.py), the paging   *)
(* loop of ContentBlockExtractor.get_all_blocks included.  The page never  *)
(* loses a content block and shows MaxBlocks of them at most.              *)
(***************************************************************************)
\* the content blocks a results page may show
RunBlocks ==
    {Block(Some("Cashier"), Some("Acme_Inc"), Some("no felonies"), Some("/job/1")),
     Block(Some("Clerk"), Some("Inc"), Some("clean record"), Some("/job/2")),
     Block(Some("Driver"), None, Some("no felonies"), Some("/job/3"))}

\* the (location, search term) pairs in the order the two loops visit them, `order`
\* being the order the loop visits the set SEARCH_KEYWORDS in
PairsOf(order) ==
    [k \in 1..(Len(LOCATIONS_TO_SEARCH) * Len(order)) |->
        [location |-> LOCATIONS_TO_SEARCH[((k - 1) \div Len(order)) + 1],
         search_term |-> order[((k - 1) % Len(order)) + 1]]]

Pairs == PairsOf(term_order)

\* the blocks that may appear below those shown
MoreBlocks == {more \in SeqsUpTo(RunBlocks, MaxBlocks) : Len(page) + Len(more) <= MaxBlocks}

InitSearch == InitCommon /\ term_order \in Orders(SEARCH_KEYWORDS)

SearchStart ==
    /\ pc = "NotStarted"
    /\ pc' = "IteratingTerms"
    /\ UNCHANGED <<term_order, cache, rewritten, call, site, num_processed, dubious_posts,
                   all_flagged_posts, csv, pair, page, last_seen_jobs, all_jobs, sleeps,
                   fetch_failed>>

\* get_all_blocks: self.driver.get(self.url) loads the results page, or raises
GetPage ==
    /\ pc = "IteratingTerms"
    /\ pair <= Len(Pairs)
    /\ \/ /\ page' \in SeqsUpTo(RunBlocks, MaxBlocks)
          /\ pc' = "PagingResults"
          /\ UNCHANGED fetch_failed
       \/ /\ pc' = "Aborted"
          /\ fetch_failed' = TRUE
          /\ UNCHANGED page
    /\ last_seen_jobs' = 0
    /\ UNCHANGED <<term_order, cache, rewritten, call, site, num_processed, dubious_posts,
                   all_flagged_posts, csv, pair, all_jobs, sleeps>>

\* the paging loop from its top to the check after the scroll: no block, break;
\* more blocks after the scroll and the sleep, continue; else go on to the button
PagingScroll ==
    /\ pc = "PagingResults"
    /\ IF Len(page) = 0
       THEN /\ pc' = "Processing"
            /\ last_seen_jobs' = 0
            /\ page' = page
       ELSE \E more \in MoreBlocks :
               /\ page' = page \o more
               /\ IF Len(page') > Len(page)
                  THEN pc' = "PagingResults" /\ last_seen_jobs' = Len(page')
                  ELSE pc' = "LoadMore" /\ last_seen_jobs' = Len(page)
    /\ UNCHANGED <<term_order, cache, rewritten, call, site, num_processed, dubious_posts,
                   all_flagged_posts, csv, pair, all_jobs, sleeps, fetch_failed>>

\* the paging loop from the click on "load more jobs" (its failure is swallowed) to
\* the end of the turn: the same number of blocks, break; else the next turn
PagingLoadMore ==
    /\ pc = "LoadMore"
    /\ \E more \in MoreBlocks :
          /\ page' = page \o more
          /\ IF Len(page') = last_seen_jobs
             THEN pc' = "Processing" /\ last_seen_jobs' = last_seen_jobs
             ELSE pc' = "PagingResults" /\ last_seen_jobs' = Len(page')
    /\ UNCHANGED <<term_order, cache, rewritten, call, site, num_processed, dubious_posts,
                   all_flagged_posts, csv, pair, all_jobs, sleeps, fetch_failed>>

\* the jobs process_block makes of blocks[i..], appended to jobs
RECURSIVE ProcessBlocksFrom(_, _, _, _)
ProcessBlocksFrom(blocks, i, p, jobs) ==
    IF i > Len(blocks) THEN jobs
    ELSE ProcessBlocksFrom(blocks, i + 1, p,
            Append(jobs, ProcessBlock(blocks[i], URL_TEMPLATE(p.search_term, p.location),
                                      p.search_term, p.location)))

\* process_search after get_all_blocks: process_block on every block of the page,
\* then the sleep; an AttributeError of process_block leaves process_search
ProcessBlocks ==
    /\ pc = "Processing"
    /\ IF \E i \in DOMAIN page : ProcessBlockRaises(page[i])
       THEN /\ pc' = "Crashed"
            /\ LET bad == CHOOSE i \in DOMAIN page :
                             /\ ProcessBlockRaises(page[i])
                             /\ \A j \in 1..(i - 1) : ~ProcessBlockRaises(page[j])
               IN  all_jobs' = ProcessBlocksFrom(SubSeq(page, 1, bad - 1), 1, Pairs[pair],
                                                 all_jobs)
            /\ UNCHANGED <<pair, sleeps>>
       ELSE /\ all_jobs' = ProcessBlocksFrom(page, 1, Pairs[pair], all_jobs)
            /\ sleeps' = sleeps + 1
            /\ pair' = pair + 1
            /\ pc' = "IteratingTerms"
    /\ UNCHANGED <<term_order, cache, rewritten, call, site, num_processed, dubious_posts,
                   all_flagged_posts, csv, page, last_seen_jobs, fetch_failed>>

\* the lists all_jobs can hold after the first k of the pairs: for every pair the
\* jobs of a page of MaxBlocks blocks at most
RECURSIVE CollectedAfter(_, _)
CollectedAfter(pairs, k) ==
    IF k = 0 THEN {<<>>}
    ELSE {ProcessBlocksFrom(blocks, 1, pairs[k], jobs) :
             jobs \in CollectedAfter(pairs, k - 1),
             blocks \in SeqsUpTo({b \in RunBlocks : ~ProcessBlockRaises(b)}, MaxBlocks)}

\* the lists all_jobs can hold after the last pair
RunJobLists ==
    UNION {CollectedAfter(PairsOf(order), Len(PairsOf(order))) :
              order \in Orders(SEARCH_KEYWORDS)}

\* the file the end of process_search leaves for the jobs it collected,
\* write_csv(dedupe_jobs(all_jobs), JOB_POST_FIELD_NAMES_WITH_ID), as a table
SearchCsv ==
    [jobs \in RunJobLists |-> WriteCsv(DedupeJobs(jobs), JOB_POST_FIELD_NAMES_WITH_ID)]

\* after the last pair: dedupe_jobs, then write_csv
SearchFinish ==
    /\ pc = "IteratingTerms"
    /\ pair > Len(Pairs)
    /\ csv' = Some(SearchCsv[all_jobs])
    /\ pc' = "Complete"
    /\ UNCHANGED <<term_order, cache, rewritten, call, site, num_processed, dubious_posts,
                   all_flagged_posts, pair, page, last_seen_jobs, all_jobs, sleeps,
                   fetch_failed>>

NextSearch ==
    \/ SearchStart
    \/ GetPage
    \/ PagingScroll
    \/ PagingLoadMore
    \/ ProcessBlocks
    \/ SearchFinish

\* process_search is one sequential thread: it takes its next step
SpecSearch == InitSearch /\ [][NextSearch]_vars /\ WF_vars(NextSearch)

\* C10: in a run where no fetch fails, the paging loop ends for every pair, every
\* pair is processed once with one sleep after it, and the run reaches Complete,
\* where the deduplicated CSV has been written.
C10_RunCompletes ==
    /\ [](pc = "Complete" => (sleeps = Len(Pairs) /\ pair = Len(Pairs) + 1 /\ csv # None))
    /\ <>(pc = "Complete" \/ fetch_failed)

\* the part of C10 the code keeps: the paging loop ends for every pair, so the run
\* ends: Complete, Aborted by a failed fetch, or Crashed in process_block
C10_PagingTerminates == <>(pc \in {"Complete", "Aborted", "Crashed"})

\* at Complete every pair has been processed once, with one sleep after each, and
\* the CSV is written
C10_CompleteOnce ==
    pc = "Complete" => (sleeps = Len(Pairs) /\ pair = Len(Pairs) + 1 /\ csv # None)

====
